---- MODULE Spec2Model ----
(***************************************************************************)
(* A model of cubing_in_pandas.py: GROUP BY with CUBE and ROLLUP on top of *)
(* the pandas group-by engine.                                             *)
(*                                                                         *)
(* Python values are tagged records.  A cell or a column identifier is     *)
(*   [k, i, d, s]  with k in "none" (Python None), "nan" (float NaN),      *)
(*                 "num" (the number i/d, int or float), "str" (s).        *)
(* A column argument is [k, v, l]: "none", "scalar" (v) or "list" (l).     *)
(* A dict is a sequence of [key, val] pairs in insertion order.            *)
(* A table is [columns, dtype, rows]; a row maps column identifiers to     *)
(* cells.                                                                  *)
(***************************************************************************)
EXTENDS Integers, Sequences, FiniteSets

VARIABLES
    args,              \* the arguments of the cubinggroupby call
    pc,                \* position in cubinggroupby: start, loop, union, done, error
                       \* (idle when no call is under way)
    normal_cols, cube_cols, rollup_cols,   \* the normalised column lists
    all_groupby_cols, value_cols, agg, result_cols,
    cube_combs, rollup_combs,
    ci, ri,            \* positions of the two nested for loops
    comb_result_dfs,   \* the per-grouping-set results accumulated so far
    engine_calls,      \* group-by / whole-table aggregations performed in this call
    result,            \* the returned table
    error,             \* the error raised, "" when none
    calls, prev_result,\* number of finished calls, and what the previous call returned
    fn, x, ret         \* a call of one of the pure helpers: name, argument, return value

vars == <<args, pc, normal_cols, cube_cols, rollup_cols, all_groupby_cols, value_cols,
          agg, result_cols, cube_combs, rollup_combs, ci, ri, comb_result_dfs,
          engine_calls, result, error, calls, prev_result, fn, x, ret>>

callvars == <<normal_cols, cube_cols, rollup_cols, all_groupby_cols, value_cols,
              agg, result_cols, cube_combs, rollup_combs, ci, ri, comb_result_dfs,
              engine_calls, result, error>>

helpervars == <<fn, x, ret>>

(***************************************************************************)
(* Bounds of the model.                                                    *)
(***************************************************************************)
\* total number of column names over the three column lists of a call
MaxCols == 3
\* a reduction name is tried on at most this many value columns
MaxStrValueCols == 2
\* length of the lists handed to the pure helpers
MaxLen == 3
\* calls of cubinggroupby on the same arguments
MaxCalls == 2

(***************************************************************************)
(* Python values.                                                          *)
(***************************************************************************)
None == [k |-> "none", i |-> 0, d |-> 1, s |-> ""]
NaN == [k |-> "nan", i |-> 0, d |-> 1, s |-> ""]
Num(n) == [k |-> "num", i |-> n, d |-> 1, s |-> ""]
Frac(n, m) == [k |-> "num", i |-> n, d |-> m, s |-> ""]
Str(t) == [k |-> "str", i |-> 0, d |-> 1, s |-> t]

\* pd.isnull
IsNull(v) == v.k \in {"none", "nan"}

ArgNone == [k |-> "none", v |-> None, l |-> <<>>]
ArgScalar(c) == [k |-> "scalar", v |-> c, l |-> <<>>]
ArgList(q) == [k |-> "list", v |-> None, l |-> q]

Range(q) == {q[j] : j \in DOMAIN q}

RECURSIVE SeqSum(_)
SeqSum(q) == IF q = <<>> THEN 0 ELSE Head(q) + SeqSum(Tail(q))

RECURSIVE Flatten(_)
Flatten(qq) == IF qq = <<>> THEN <<>> ELSE Head(qq) \o Flatten(Tail(qq))

RECURSIVE Gcd(_, _)
Gcd(a, b) == IF b = 0 THEN a ELSE Gcd(b, a % b)

(***************************************************************************)
(* The pure helpers.                                                       *)
(***************************************************************************)
\* isinstance(cols, str)
IsStr(c) == c.k = "scalar" /\ c.v.k = "str"

_cols_normalize(cols) ==
    IF cols.k = "none" THEN ArgList(<<>>)
    ELSE IF IsStr(cols) THEN ArgList(<<cols.v>>)
    ELSE cols

\* set(l) of a list argument
AsSet(cols) == Range(cols.l)

\* the check with the rollup columns left out of it
check_without_rollup(n, c, r) ==
    LET ns == AsSet(_cols_normalize(n))
        cs == AsSet(_cols_normalize(c))
    IN Cardinality(ns \cup cs) = Cardinality(ns) + Cardinality(cs)

_check_no_interleaving_cols(n, c, r) ==
    LET ns == AsSet(_cols_normalize(n))
        cs == AsSet(_cols_normalize(c))
        rs == AsSet(_cols_normalize(r))
        all_cols == ns \cup cs \cup rs
        all_lengths == Cardinality(ns) + Cardinality(cs) + Cardinality(rs)
    IN Cardinality(all_cols) = all_lengths

\* the index tuples itertools.combinations draws from lo..n, r at a time, in its
\* (lexicographic) order
RECURSIVE IndexCombs(_, _, _)
IndexCombs(n, r, lo) ==
    IF r = 0 THEN << <<>> >>
    ELSE IF lo > n THEN <<>>
    ELSE LET with == IndexCombs(n, r - 1, lo + 1)
             without == IndexCombs(n, r, lo + 1)
         IN [j \in 1..Len(with) |-> <<lo>> \o with[j]] \o without

\* combinations whose tuples run against the order of q
combinations_reversed(q, r) ==
    LET idx == IndexCombs(Len(q), r, 1)
    IN [j \in 1..Len(idx) |-> [p \in 1..r |-> q[idx[j][r + 1 - p]]]]

\* itertools.combinations(q, r)
combinations(q, r) ==
    LET idx == IndexCombs(Len(q), r, 1)
    IN [j \in 1..Len(idx) |-> [p \in 1..r |-> q[idx[j][p]]]]

\* the prefixes of q taken for its subsets
cube_as_prefixes(q) ==
    [j \in 1..(Len(q) + 1) |-> SubSeq(q, 1, j - 1)]

_get_cube_combinations(q) ==
    Flatten([comb_len \in 1..(Len(q) + 1) |-> combinations(q, comb_len - 1)])

\* the prefixes x[:i+1] for x[:i]: the empty prefix is lost, the full one doubled
rollup_off_by_one(q) ==
    [j \in 1..(Len(q) + 1) |-> SubSeq(q, 1, IF j < Len(q) THEN j ELSE Len(q))]

_get_rollup_combinations(q) ==
    [j \in 1..(Len(q) + 1) |-> SubSeq(q, 1, j - 1)]

\* dict.get(key, default) on a sequence of key/val pairs
DictHas(dict, key) == \E j \in DOMAIN dict : dict[j].key = key
DictGet(dict, key, default) ==
    IF DictHas(dict, key)
    THEN dict[CHOOSE j \in DOMAIN dict : dict[j].key = key].val
    ELSE default
DictKeys(dict) == [j \in DOMAIN dict |-> dict[j].key]

\* a fill specification: [k |-> "none"], [k |-> "scalar", v], [k |-> "dict", m]
FillNone == [k |-> "none", v |-> None, m |-> <<>>]
FillScalar(c) == [k |-> "scalar", v |-> c, m |-> <<>>]
FillDict(m) == [k |-> "dict", v |-> None, m |-> m]

_get_grouping_filling(col_name, filling) ==
    IF filling.k = "none" THEN None
    ELSE IF filling.k = "dict" THEN DictGet(filling.m, col_name, None)
    ELSE filling.v

(***************************************************************************)
(* The pandas engine, as far as cubinggroupby uses it.                     *)
(***************************************************************************)
\* the strings of the model in Python's (code point) order
StrOrder == <<"TOTAL", "area", "area1", "area2", "cat1", "cat2", "category",
              "price", "prod1", "prod2", "prod3", "prod4", "product", "year">>
StrRank(t) == CHOOSE j \in DOMAIN StrOrder : StrOrder[j] = t

\* a < b as sort_values orders one column, ascending, nulls last
CellLess(a, b) ==
    CASE IsNull(a) -> FALSE
      [] IsNull(b) -> TRUE
      [] a.k = "num" /\ b.k = "num" -> a.i * b.d < b.i * a.d
      [] a.k = "str" /\ b.k = "str" -> StrRank(a.s) < StrRank(b.s)
      [] OTHER -> a.k = "num"

\* equal as sort keys: equal values, or both null
CellSame(a, b) == (IsNull(a) /\ IsNull(b)) \/ a = b

RECURSIVE RowLess(_, _, _)
RowLess(r1, r2, by) ==
    IF by = <<>> THEN FALSE
    ELSE IF CellLess(r1[Head(by)], r2[Head(by)]) THEN TRUE
    ELSE IF CellLess(r2[Head(by)], r1[Head(by)]) THEN FALSE
    ELSE RowLess(r1, r2, Tail(by))

\* rows with r put after the last row that is not greater than it
RECURSIVE InsertRow(_, _, _)
InsertRow(sorted, r, by) ==
    IF sorted = <<>> THEN <<r>>
    ELSE IF RowLess(r, sorted[Len(sorted)], by)
         THEN InsertRow(SubSeq(sorted, 1, Len(sorted) - 1), r, by)
              \o <<sorted[Len(sorted)]>>
         ELSE Append(sorted, r)

\* DataFrame.sort_values(by): ascending, nulls last, equal keys keep their order
RECURSIVE sort_values(_, _)
sort_values(rows, by) ==
    IF rows = <<>> THEN <<>>
    ELSE InsertRow(sort_values(SubSeq(rows, 1, Len(rows) - 1), by),
                   rows[Len(rows)], by)

\* the values of one column, in row order
Column(rows, c) == [j \in DOMAIN rows |-> rows[j][c]]

NotNull(v) == ~IsNull(v)

\* a named reduction of one column; nulls are skipped, as pandas does
Reduce(func, vals) ==
    LET nn == SelectSeq(vals, NotNull)
        total == SeqSum([j \in DOMAIN nn |-> nn[j].i])
        g == Gcd(total, Len(nn))
    IN CASE func = "count" -> Num(Len(nn))
         [] func = "nunique" -> Num(Cardinality(Range(nn)))
         [] func = "sum" -> Num(total)
         [] func = "mean" -> IF nn = <<>> THEN NaN
                             ELSE Frac(total \div g, Len(nn) \div g)

\* df.agg(agg).to_frame().T : one row, the reduction of every value column
df_agg(df, aggd) ==
    [columns |-> DictKeys(aggd),
     rows |-> << [c \in Range(DictKeys(aggd)) |->
                    Reduce(DictGet(aggd, c, ""), Column(df.rows, c))] >>]

\* the row's values of the key columns
KeyOf(r, by) == [c \in Range(by) |-> r[c]]

\* a group-by that keeps the null keys (dropna=False)
KeepsNullKey(r, by) == FALSE

\* group-by drops the rows that have a null in a key column (dropna=True)
HasNullKey(r, by) == \E c \in Range(by) : IsNull(r[c])

RECURSIVE KeyRows(_, _)
KeyRows(rows, by) ==
    IF rows = <<>> THEN <<>>
    ELSE LET rest == KeyRows(SubSeq(rows, 1, Len(rows) - 1), by)
             r == rows[Len(rows)]
         IN IF HasNullKey(r, by) \/ KeyOf(r, by) \in Range(rest)
            THEN rest ELSE Append(rest, KeyOf(r, by))

\* df.groupby(by, as_index=False).agg(agg): one row per distinct key, keys sorted
groupby_agg(df, by, aggd) ==
    LET keys == sort_values(KeyRows(df.rows, by), by)
        Members(key) == SelectSeq(df.rows, LAMBDA r : KeyOf(r, by) = key)
    IN [columns |-> by \o DictKeys(aggd),
        rows |-> [j \in DOMAIN keys |->
                    [c \in Range(by) \cup Range(DictKeys(aggd)) |->
                        IF c \in Range(by) THEN keys[j][c]
                        ELSE Reduce(DictGet(aggd, c, ""),
                                    Column(Members(keys[j]), c))]]]

\* Series.astype(dtype) of a column holding v in every row: whether it succeeds
AstypeOk(v, dtype) ==
    CASE dtype = "object" -> TRUE
      [] dtype = "int64" -> v.k = "num" /\ v.d = 1
      [] dtype = "float64" -> v.k # "str"

\* ... and what the column then holds
Astype(v, dtype) ==
    IF dtype = "float64" /\ v.k = "none" THEN NaN ELSE v

\* pd.to_numeric of a column of None
to_numeric(v) == IF v.k = "none" THEN NaN ELSE v

(***************************************************************************)
(* The documented sample table (test_cubinggroupby) and the arguments the  *)
(* model calls cubinggroupby with.                                         *)
(***************************************************************************)
category == Str("category")
area == Str("area")
year == Str("year")
product == Str("product")
price == Str("price")

SampleColumns == <<category, area, year, product, price>>

\* a field of the csv text: the empty field reads as NaN
Field(t) == IF t = "" THEN NaN ELSE Str(t)

SampleRow(c, a, y, p, pr) ==
    [col \in Range(SampleColumns) |->
        CASE col = category -> Field(c)
          [] col = area -> Field(a)
          [] col = year -> Num(y)
          [] col = product -> Field(p)
          [] col = price -> Num(pr)]

SampleRows ==
    << SampleRow("cat1", "area1", 1, "prod1", 10),
       SampleRow("cat1", "area1", 2, "prod1", 11),
       SampleRow("cat1", "area2", 3, "prod2", 12),
       SampleRow("cat2", "area1", 1, "prod1", 13),
       SampleRow("cat2", "area2", 3, "prod3", 14),
       SampleRow("cat2", "area1", 2, "prod2", 15),
       SampleRow("", "area1", 4, "prod3", 16),
       SampleRow("", "area2", 2, "prod1", 17),
       SampleRow("cat2", "", 3, "prod4", 18) >>

\* the dtypes pd.read_csv gives the sample's columns
SampleDtype ==
    [col \in Range(SampleColumns) |->
        IF col \in {year, price} THEN "int64" ELSE "object"]

\* the first n rows of the sample
Table(n) == [columns |-> SampleColumns, dtype |-> SampleDtype,
             rows |-> SubSeq(SampleRows, 1, n)]

SampleTable == Table(Len(SampleRows))

\* the tables of the model: the sample and the table with its columns and no row
Tables == {Table(n) : n \in {0, Len(SampleRows)}}

\* the columns the model groups by
GroupCols == {category, area, year}

SeqsUpTo(S, n) == UNION {[1..m -> S] : m \in 0..n}

\* the column lists of a call: at most MaxCols names in all
ColLists ==
    UNION {[1..ln[1] -> GroupCols] \X [1..ln[2] -> GroupCols] \X [1..ln[3] -> GroupCols] :
             ln \in {m \in (0..MaxCols) \X (0..MaxCols) \X (0..MaxCols) :
                        m[1] + m[2] + m[3] <= MaxCols}}

\* how a caller writes a column list: the argument left out (None) for no
\* column, a list otherwise, or the bare name for one column when terse
ColArg(q, terse) ==
    IF q = <<>> THEN ArgNone
    ELSE IF terse /\ Len(q) = 1 THEN ArgScalar(q[1])
    ELSE ArgList(q)

\* an agg argument: a reduction name, a dict, or something else
AggStr(name) == [k |-> "str", s |-> name, m |-> <<>>]
AggDict(m) == [k |-> "dict", s |-> "", m |-> m]
AggOther == [k |-> "other", s |-> "", m |-> <<>>]

Pair(key, val) == [key |-> key, val |-> val]

\* the aggregation of test_cubinggroupby: {'product': nunique, 'price': 'mean'}
SampleAgg == AggDict(<<Pair(product, "nunique"), Pair(price, "mean")>>)
\* the fill of test_cubinggroupby: {'category': 'TOTAL', 'area': np.nan}
SampleFill == FillDict(<<Pair(category, Str("TOTAL")), Pair(area, NaN)>>)

Aggs == {AggStr("count"),
         SampleAgg,
         AggDict(<<Pair(year, "nunique"), Pair(price, "sum")>>),
         AggOther}

Fills == {FillNone,
          FillScalar(Str("TOTAL")),
          SampleFill,
          FillDict(<<Pair(category, Str("cat1"))>>)}

CallArgs ==
    {[df |-> t, normal_cols |-> ColArg(q[1], terse), cube_cols |-> ColArg(q[2], terse),
      rollup_cols |-> ColArg(q[3], terse), agg |-> a, fill_grouping |-> f,
      as_index |-> ix] :
        t \in Tables, q \in ColLists, terse \in BOOLEAN, a \in Aggs, f \in Fills,
        ix \in BOOLEAN}

\* a reduction name is applied to every other column of the table: the model
\* calls it with at most MaxStrValueCols of them
Admitted(a) ==
    a.agg.k = "str" =>
        Cardinality(Range(a.df.columns)
                    \ (AsSet(_cols_normalize(a.normal_cols))
                       \cup AsSet(_cols_normalize(a.cube_cols))
                       \cup AsSet(_cols_normalize(a.rollup_cols))))
            <= MaxStrValueCols

NoResult == [ok |-> FALSE, index |-> <<>>, columns |-> <<>>, rows |-> <<>>]

(***************************************************************************)
(* cubinggroupby.                                                          *)
(***************************************************************************)
\* list(a_set): the elements in the order the set iterates, which Python leaves
\* open (for str elements it changes with the interpreter's hash seed)
ListOfSet(S) == {q \in [1..Cardinality(S) -> S] : Range(q) = S}

\* the value columns without the grouping columns taken out
ValueColsAll(df, groupby) == ListOfSet(Range(df.columns))

\* the value columns of a reduction name: list(set(df.columns) - set(all_groupby_cols))
ValueColsOfStr(df, groupby) == ListOfSet(Range(df.columns) \ Range(groupby))

\* the agg dict a reduction name becomes
AggOfStr(cols, func) == [j \in DOMAIN cols |-> Pair(cols[j], func)]

HasDuplicates(q) == \E j1, j2 \in DOMAIN q : j1 # j2 /\ q[j1] = q[j2]

\* what the engine refuses: a key column named twice, a key or aggregated column
\* the table lacks, a result that would carry one label twice
EngineRejects(df, groupby_cols, all_cols, vcols) ==
    \/ HasDuplicates(groupby_cols)
    \/ ~(Range(all_cols) \cup Range(vcols) \subseteq Range(df.columns))
    \/ Range(all_cols) \cap Range(vcols) # {}

\* the group-by without the special treatment of the empty grouping set
SingleResultAlwaysGrouped(df, groupby_cols, aggd) ==
    groupby_agg(df, groupby_cols, aggd)

\* the group-by of one grouping set, or the whole-table aggregation
SingleResult(df, groupby_cols, aggd) ==
    IF groupby_cols = <<>> THEN df_agg(df, aggd)
    ELSE groupby_agg(df, groupby_cols, aggd)

\* whether a folded column can be given its fill value and the column's dtype
FillOk(v, dtype) ==
    IF dtype = "int64" /\ v.k = "none" THEN TRUE ELSE AstypeOk(v, dtype)

\* what a folded column holds after the fill and the dtype treatment
FillValue(v, dtype) ==
    IF dtype = "int64" /\ v.k = "none" THEN to_numeric(v) ELSE Astype(v, dtype)

\* single_result with the folded columns added, then single_result[result_cols]
Folded(single_result, df, remaining_cols, filling, rcols) ==
    [columns |-> rcols,
     rows |-> [j \in DOMAIN single_result.rows |->
                 [c \in Range(rcols) |->
                    IF c \in remaining_cols
                    THEN FillValue(_get_grouping_filling(c, filling), df.dtype[c])
                    ELSE single_result.rows[j][c]]]]

\* pd.concat(dfs, ignore_index=True).sort_values(by).reset_index(drop=True)
Unioned(dfs, by) ==
    sort_values(Flatten([j \in DOMAIN dfs |-> dfs[j].rows]), by)

\* the returned table: with as_index the grouping columns become the row index
Returned(rows, groupby, rcols, vcols, as_index) ==
    IF as_index
    THEN [ok |-> TRUE, index |-> groupby, columns |-> vcols,
          rows |-> sort_values(rows, groupby)]
    ELSE [ok |-> TRUE, index |-> <<>>, columns |-> rcols, rows |-> rows]

Raise(kind) ==
    /\ pc' = "error"
    /\ error' = kind

\* lines 105-131: normalise, validate, resolve the aggregation, enumerate
Validate ==
    /\ pc = "start"
    /\ LET n == _cols_normalize(args.normal_cols)
           c == _cols_normalize(args.cube_cols)
           r == _cols_normalize(args.rollup_cols)
           all == n.l \o c.l \o r.l
       IN IF ~_check_no_interleaving_cols(n, c, r)
          THEN /\ Raise("overlap")
               /\ normal_cols' = n.l /\ cube_cols' = c.l /\ rollup_cols' = r.l
               /\ UNCHANGED <<all_groupby_cols, value_cols, agg, result_cols,
                              cube_combs, rollup_combs, ci, ri>>
          ELSE IF args.agg.k \notin {"str", "dict"}
          THEN /\ Raise("agg")
               /\ normal_cols' = n.l /\ cube_cols' = c.l /\ rollup_cols' = r.l
               /\ all_groupby_cols' = all
               /\ UNCHANGED <<value_cols, agg, result_cols, cube_combs, rollup_combs,
                              ci, ri>>
          ELSE /\ normal_cols' = n.l /\ cube_cols' = c.l /\ rollup_cols' = r.l
               /\ all_groupby_cols' = all
               /\ IF args.agg.k = "str"
                  THEN /\ value_cols' \in ValueColsOfStr(args.df, all)
                       /\ agg' = AggOfStr(value_cols', args.agg.s)
                  ELSE /\ value_cols' = DictKeys(args.agg.m)
                       /\ agg' = args.agg.m
               /\ result_cols' = all \o value_cols'
               /\ cube_combs' = _get_cube_combinations(c.l)
               /\ rollup_combs' = _get_rollup_combinations(r.l)
               /\ ci' = 1 /\ ri' = 1
               /\ pc' = "loop"
               /\ error' = ""
    /\ UNCHANGED <<args, comb_result_dfs, engine_calls, result, calls, prev_result>>
    /\ UNCHANGED helpervars

\* lines 135-174: one pass of the nested loops, for one grouping set
GroupingSet ==
    /\ pc = "loop"
    /\ LET groupby_cols == normal_cols \o cube_combs[ci] \o rollup_combs[ri]
           remaining_cols == Range(all_groupby_cols) \ Range(groupby_cols)
           single_result == SingleResult(args.df, groupby_cols, agg)
           fills_ok == \A c \in remaining_cols :
                          FillOk(_get_grouping_filling(c, args.fill_grouping),
                                 args.df.dtype[c])
       IN IF EngineRejects(args.df, groupby_cols, all_groupby_cols, value_cols)
          THEN /\ Raise("engine")
               /\ UNCHANGED <<comb_result_dfs, engine_calls, ci, ri>>
          ELSE IF single_result.rows # <<>> /\ ~fills_ok
          THEN /\ Raise("engine")
               /\ engine_calls' = engine_calls + 1
               /\ UNCHANGED <<comb_result_dfs, ci, ri>>
          ELSE /\ engine_calls' = engine_calls + 1
               /\ comb_result_dfs' =
                     Append(comb_result_dfs,
                            Folded(single_result, args.df, remaining_cols,
                                   args.fill_grouping, result_cols))
               /\ IF ri < Len(rollup_combs)
                  THEN ri' = ri + 1 /\ ci' = ci /\ pc' = "loop"
                  ELSE IF ci < Len(cube_combs)
                  THEN ri' = 1 /\ ci' = ci + 1 /\ pc' = "loop"
                  ELSE pc' = "union" /\ UNCHANGED <<ci, ri>>
               /\ error' = ""
    /\ UNCHANGED <<args, normal_cols, cube_cols, rollup_cols, all_groupby_cols,
                   value_cols, agg, result_cols, cube_combs, rollup_combs, result,
                   calls, prev_result>>
    /\ UNCHANGED helpervars

\* lines 176-186: union, sort, index, return
Assemble ==
    /\ pc = "union"
    /\ result' = Returned(Unioned(comb_result_dfs, all_groupby_cols),
                          all_groupby_cols, result_cols, value_cols, args.as_index)
    /\ pc' = "done"
    /\ calls' = calls + 1
    /\ UNCHANGED <<args, normal_cols, cube_cols, rollup_cols, all_groupby_cols,
                   value_cols, agg, result_cols, cube_combs, rollup_combs, ci, ri,
                   comb_result_dfs, engine_calls, error, prev_result>>
    /\ UNCHANGED helpervars

\* the locals of a call that has not started
Fresh ==
    /\ pc = "start"
    /\ normal_cols = <<>> /\ cube_cols = <<>> /\ rollup_cols = <<>>
    /\ all_groupby_cols = <<>> /\ value_cols = <<>> /\ agg = <<>>
    /\ result_cols = <<>> /\ cube_combs = <<>> /\ rollup_combs = <<>>
    /\ ci = 0 /\ ri = 0
    /\ comb_result_dfs = <<>>
    /\ engine_calls = 0
    /\ result = NoResult
    /\ error = ""

\* the caller calls cubinggroupby again, with the same arguments
CallAgain ==
    /\ pc = "done"
    /\ calls < MaxCalls
    /\ prev_result' = result
    /\ pc' = "start"
    /\ normal_cols' = <<>> /\ cube_cols' = <<>> /\ rollup_cols' = <<>>
    /\ all_groupby_cols' = <<>> /\ value_cols' = <<>> /\ agg' = <<>>
    /\ result_cols' = <<>> /\ cube_combs' = <<>> /\ rollup_combs' = <<>>
    /\ ci' = 0 /\ ri' = 0
    /\ comb_result_dfs' = <<>>
    /\ engine_calls' = 0
    /\ result' = NoResult
    /\ error' = ""
    /\ UNCHANGED <<args, calls>>
    /\ UNCHANGED helpervars

NoHelper == fn = "" /\ x = ArgNone /\ ret = ArgNone

Init ==
    /\ args \in {a \in CallArgs : Admitted(a)}
    /\ Fresh
    /\ calls = 0
    /\ prev_result = NoResult
    /\ NoHelper

Next == Validate \/ GroupingSet \/ Assemble

Spec == Init /\ [][Next]_vars

(***************************************************************************)
(* The same call made twice, for what a caller sees from one call to the   *)
(* next.                                                                   *)
(***************************************************************************)
InitTwice ==
    /\ Init
    /\ args.df = SampleTable
    /\ args.fill_grouping \in {FillNone, SampleFill}

NextTwice == Validate \/ GroupingSet \/ Assemble \/ CallAgain

SpecTwice == InitTwice /\ [][NextTwice]_vars

(***************************************************************************)
(* The pure helpers called on their own, as the unit tests do.             *)
(***************************************************************************)
Idents == {Str("a"), Str("b"), Num(1)}

HelperArgs ==
    {ArgNone} \cup {ArgScalar(c) : c \in Idents}
              \cup {ArgList(q) : q \in SeqsUpTo(Idents, MaxLen)}

\* no cubinggroupby call is under way
Idle ==
    /\ args = [df |-> Table(0), normal_cols |-> ArgNone, cube_cols |-> ArgNone,
               rollup_cols |-> ArgNone, agg |-> AggOther, fill_grouping |-> FillNone,
               as_index |-> TRUE]
    /\ pc = "idle"
    /\ normal_cols = <<>> /\ cube_cols = <<>> /\ rollup_cols = <<>>
    /\ all_groupby_cols = <<>> /\ value_cols = <<>> /\ agg = <<>>
    /\ result_cols = <<>> /\ cube_combs = <<>> /\ rollup_combs = <<>>
    /\ ci = 0 /\ ri = 0
    /\ comb_result_dfs = <<>>
    /\ engine_calls = 0
    /\ result = NoResult
    /\ error = ""
    /\ calls = 0
    /\ prev_result = NoResult

CallColsNormalize ==
    /\ fn = ""
    /\ fn' = "_cols_normalize"
    /\ ret' = _cols_normalize(x)
    /\ UNCHANGED <<x, args, pc, calls, prev_result>>
    /\ UNCHANGED callvars

\* len(x) needs a list
CallCubeCombinations ==
    /\ fn = ""
    /\ x.k = "list"
    /\ fn' = "_get_cube_combinations"
    /\ ret' = _get_cube_combinations(x.l)
    /\ UNCHANGED <<x, args, pc, calls, prev_result>>
    /\ UNCHANGED callvars

CallRollupCombinations ==
    /\ fn = ""
    /\ x.k = "list"
    /\ fn' = "_get_rollup_combinations"
    /\ ret' = _get_rollup_combinations(x.l)
    /\ UNCHANGED <<x, args, pc, calls, prev_result>>
    /\ UNCHANGED callvars

InitPure ==
    /\ Idle
    /\ fn = ""
    /\ x \in HelperArgs
    /\ ret = ArgNone

NextPure == CallColsNormalize \/ CallCubeCombinations \/ CallRollupCombinations

SpecPure == InitPure /\ [][NextPure]_vars

(***************************************************************************)
(* Properties.                                                             *)
(***************************************************************************)
Pow2(n) == 2 ^ n

\* the names a column argument gives, read off the argument itself
ArgNames(a) ==
    IF a.k = "none" THEN {} ELSE IF a.k = "scalar" THEN {a.v} ELSE Range(a.l)

\* the elements of q at the positions S, in the order of q
RECURSIVE Pick(_, _)
Pick(q, S) ==
    IF q = <<>> THEN <<>>
    ELSE Pick(SubSeq(q, 1, Len(q) - 1), S)
         \o (IF Len(q) \in S THEN <<q[Len(q)]>> ELSE <<>>)

\* the grouping sets SQL's CUBE and ROLLUP ask for: the plain columns with a
\* subset of the cube columns and a prefix of the rollup columns
GroupingSets ==
    {<<S, m>> : S \in SUBSET (1..Len(cube_cols)), m \in 0..Len(rollup_cols)}
GroupingSetCols(g) ==
    normal_cols \o Pick(cube_cols, g[1]) \o SubSeq(rollup_cols, 1, g[2])

\* the distinct value combinations a table has for some columns: all of them,
\* and those without a null
Combos(rows, by) == {KeyOf(rows[j], by) : j \in DOMAIN rows}
NullFree(key) == \A c \in DOMAIN key : ~IsNull(key[c])
NullFreeCombos(rows, by) == {key \in Combos(rows, by) : NullFree(key)}

CombosOfSet(g) ==
    IF GroupingSetCols(g) = <<>> THEN 1
    ELSE Cardinality(Combos(args.df.rows, GroupingSetCols(g)))

NullFreeCombosOfSet(g) ==
    IF GroupingSetCols(g) = <<>> THEN 1
    ELSE Cardinality(NullFreeCombos(args.df.rows, GroupingSetCols(g)))

\* the sum, over the grouping sets S, of their numbers of combinations
RECURSIVE SumOfCombos(_, _)
SumOfCombos(S, nullfree) ==
    IF S = {} THEN 0
    ELSE LET g == CHOOSE e \in S : TRUE
         IN (IF nullfree THEN NullFreeCombosOfSet(g) ELSE CombosOfSet(g))
            + SumOfCombos(S \ {g}, nullfree)

Returns == pc = "done" /\ result.ok

\* C1 as stated: 2^|cube| x (|rollup|+1) grouping sets are evaluated and the
\* returned table has as many rows as the input has distinct value combinations,
\* summed over the grouping sets (1 for the empty set).
C1_RowsAreAllCombinations ==
    Returns =>
        /\ Len(comb_result_dfs) = Pow2(Len(cube_cols)) * (Len(rollup_cols) + 1)
        /\ Len(result.rows) = SumOfCombos(GroupingSets, FALSE)

\* C1 amended: 2^|cube| x (|rollup|+1) grouping sets are evaluated and the
\* returned table has as many rows as the input has distinct value combinations
\* WITHOUT A NULL in them, summed over the grouping sets (1 for the empty set).
C1_RowsAreNullFreeCombinations ==
    Returns =>
        /\ Len(comb_result_dfs) = Pow2(Len(cube_cols)) * (Len(rollup_cols) + 1)
        /\ engine_calls = Pow2(Len(cube_cols)) * (Len(rollup_cols) + 1)
        /\ Len(result.rows) = SumOfCombos(GroupingSets, TRUE)

\* C1 witness: the sample, 2 cube columns and 1 rollup column, 8 grouping sets,
\* and null combinations that the result leaves out.
C1_Witness ==
    /\ Returns
    /\ args.df = SampleTable
    /\ Len(cube_cols) = 2 /\ Len(rollup_cols) = 1
    /\ Len(comb_result_dfs) = 8
    /\ Len(result.rows) < SumOfCombos(GroupingSets, FALSE)

\* the grouping set of the j-th per-set result, in loop order
SetOfResult(j) ==
    normal_cols \o cube_combs[((j - 1) \div Len(rollup_combs)) + 1]
                \o rollup_combs[((j - 1) % Len(rollup_combs)) + 1]

\* C2 as stated: every grouping set that is aggregated gets a per-set result, with
\* the columns all-grouping-columns ++ value-columns in that order, each folded
\* column holding the resolved fill value in every row, whatever the fill
\* specification and the column's type.
C2_FoldedColumnsHoldFill ==
    /\ Len(comb_result_dfs) = engine_calls
    /\ \A j \in DOMAIN comb_result_dfs :
          /\ comb_result_dfs[j].columns = all_groupby_cols \o value_cols
          /\ \A r \in DOMAIN comb_result_dfs[j].rows :
                \A c \in Range(all_groupby_cols) \ Range(SetOfResult(j)) :
                    CellSame(comb_result_dfs[j].rows[r][c],
                             _get_grouping_filling(c, args.fill_grouping))

\* the fold sentinel of a grouping column
Sentinel(c) == _get_grouping_filling(c, args.fill_grouping)

AllSentinels(row) == \A c \in Range(all_groupby_cols) : CellSame(row[c], Sentinel(c))

\* the reductions of the whole input table, computed directly
HoldsTotals(row) ==
    \A c \in Range(value_cols) :
        row[c] = Reduce(DictGet(agg, c, ""), Column(args.df.rows, c))

\* a fill sentinel that is also a value of its column in the input table
Collides(c) ==
    /\ ~IsNull(Sentinel(c))
    /\ \E j \in DOMAIN args.df.rows : args.df.rows[j][c] = Sentinel(c)

\* C3 as stated: with no plain columns, the row whose grouping columns all equal
\* their fold sentinel holds the reductions of the whole input table.
C3_GrandTotalRow ==
    (Returns /\ normal_cols = <<>>) =>
        /\ \E j \in DOMAIN result.rows : AllSentinels(result.rows[j])
        /\ \A j \in DOMAIN result.rows :
              AllSentinels(result.rows[j]) => HoldsTotals(result.rows[j])

\* C3 amended: with no plain columns there is a row whose grouping columns all
\* equal their fold sentinel and which holds the reductions of the whole input
\* table; it is the only row of sentinels, PROVIDED no fill sentinel is also a
\* value of its column in the input table.
C3_GrandTotalRowUnlessCollision ==
    (Returns /\ normal_cols = <<>>) =>
        /\ \E j \in DOMAIN result.rows :
              AllSentinels(result.rows[j]) /\ HoldsTotals(result.rows[j])
        /\ (\A c \in Range(all_groupby_cols) : ~Collides(c)) =>
              \A j1, j2 \in DOMAIN result.rows :
                  (AllSentinels(result.rows[j1]) /\ AllSentinels(result.rows[j2]))
                      => j1 = j2

\* C3 witness: a returned cube of the sample with the 'TOTAL' sentinel, whose
\* grand-total row is there among rows of groups.
C3_Witness ==
    /\ Returns /\ normal_cols = <<>>
    /\ args.df = SampleTable
    /\ args.fill_grouping = SampleFill
    /\ category \in Range(cube_cols)
    /\ Len(result.rows) > 1
    /\ \E j \in DOMAIN result.rows :
          /\ AllSentinels(result.rows[j]) /\ HoldsTotals(result.rows[j])
          /\ result.rows[j][category] = Str("TOTAL")

\* the call of test_cubinggroupby, whatever the index flag
IsSampleCall ==
    /\ args.df = SampleTable
    /\ args.normal_cols = ArgNone
    /\ args.cube_cols = ArgList(<<category, area>>)
    /\ args.rollup_cols = ArgList(<<year>>)
    /\ args.agg = SampleAgg
    /\ args.fill_grouping = SampleFill

\* C4 as stated: the documented call on the 9-row sample returns 32 rows.
C4_SampleHas32Rows == (pc = "done" /\ IsSampleCall) => Len(result.rows) = 32

\* C4 amended: the documented call on the 9-row sample returns 30 rows (the
\* shape of the expected table of test_cubinggroupby).
C4_SampleHas30Rows ==
    IsSampleCall =>
        /\ pc # "error"
        /\ pc = "done" => (result.ok /\ Len(result.rows) = 30)

\* C4 witness: the documented call has returned.
C4_Witness == pc = "done" /\ IsSampleCall /\ ~args.as_index /\ Len(result.rows) = 30

\* a column name given in more than one of the three lists
Overlapping ==
    \/ ArgNames(args.normal_cols) \cap ArgNames(args.cube_cols) # {}
    \/ ArgNames(args.normal_cols) \cap ArgNames(args.rollup_cols) # {}
    \/ ArgNames(args.cube_cols) \cap ArgNames(args.rollup_cols) # {}

ConfigError == pc = "error" /\ error \in {"overlap", "agg"}

\* C5: once validation has run, a configuration error is reported whenever a
\* name is in two lists or agg is neither a name nor a mapping, then nothing has
\* been aggregated and no table is returned; and none is reported when the lists
\* are pairwise disjoint and agg is a name or a mapping.
C5_ConfigurationErrors ==
    /\ (pc # "start" /\ Overlapping) => (pc = "error" /\ error = "overlap")
    /\ (pc # "start" /\ args.agg.k \notin {"str", "dict"}) => ConfigError
    /\ (pc # "start" /\ ~Overlapping /\ args.agg.k \in {"str", "dict"}) => ~ConfigError
    /\ ConfigError => (engine_calls = 0 /\ comb_result_dfs = <<>> /\ result = NoResult)

\* C5 witness: rollup names a cube column, and the call ended in the error.
C5_Witness ==
    /\ ConfigError /\ error = "overlap"
    /\ ArgNames(args.cube_cols) \cap ArgNames(args.rollup_cols) # {}
    /\ ArgNames(args.normal_cols) = {}
    /\ engine_calls = 0

\* how often t is among the elements of q
Count(q, t) == Cardinality({j \in DOMAIN q : q[j] = t})

\* C6: _get_cube_combinations(x) has 2^n tuples, one per subset of the positions
\* of x and in the order of x, sizes never decreasing, () first and all of x last.
C6_CubeCombinations ==
    fn = "_get_cube_combinations" =>
        LET n == Len(x.l)
            Subsets == SUBSET (1..n)
        IN /\ Len(ret) = Pow2(n)
           /\ \A S \in Subsets :
                 Count(ret, Pick(x.l, S))
                     = Cardinality({T \in Subsets : Pick(x.l, T) = Pick(x.l, S)})
           /\ \A j \in 1..(Len(ret) - 1) : Len(ret[j]) <= Len(ret[j + 1])
           /\ ret[1] = <<>>
           /\ ret[Len(ret)] = x.l

\* C6 witness: the cube of a list of three distinct names.
C6_Witness ==
    /\ fn = "_get_cube_combinations"
    /\ x.l = <<Str("a"), Str("b"), Num(1)>>
    /\ Len(ret) = 8
    /\ ret[6] = <<Str("a"), Num(1)>>

\* C7: _get_rollup_combinations(x) has n+1 tuples, the k-th being the first k
\* elements of x.
C7_RollupCombinations ==
    fn = "_get_rollup_combinations" =>
        /\ Len(ret) = Len(x.l) + 1
        /\ \A m \in 0..Len(x.l) :
              /\ Len(ret[m + 1]) = m
              /\ \A p \in 1..m : ret[m + 1][p] = x.l[p]

\* C7 witness: the rollup of a list of three names.
C7_Witness ==
    /\ fn = "_get_rollup_combinations"
    /\ Len(x.l) = 3
    /\ Len(ret) = 4
    /\ ret[4] = x.l /\ ret[1] = <<>>

\* validation has passed
Validated == pc \in {"loop", "union", "done"} \/ (pc = "error" /\ error = "engine")

\* C8 as stated: once validation has passed, no value column is a grouping column,
\* for a reduction name and for a mapping.
C8_ValueColumnsDisjoint ==
    Validated => Range(value_cols) \cap Range(all_groupby_cols) = {}

\* C8 amended: once validation has passed, no value column is a grouping column
\* WHEN AGG IS A REDUCTION NAME; when it is a mapping the value columns are the
\* mapping's keys, whether or not they are grouping columns.
C8_ValueColumnsOfAgg ==
    Validated =>
        /\ args.agg.k = "str" =>
              /\ Range(value_cols) \cap Range(all_groupby_cols) = {}
              /\ Range(value_cols) \cup Range(all_groupby_cols)
                    = Range(args.df.columns) \cup Range(all_groupby_cols)
        /\ args.agg.k = "dict" => value_cols = DictKeys(args.agg.m)

\* C8 witness: a reduction name resolved to the columns that are not grouped by.
C8_Witness ==
    /\ pc = "loop"
    /\ args.agg.k = "str"
    /\ Len(all_groupby_cols) = 3
    /\ Range(value_cols) = {product, price}

\* C9 as stated: a second call with the same arguments returns the same table,
\* columns and rows in the same order.
C9_SameTableAgain == (pc = "done" /\ calls > 1) => result = prev_result

\* C10 as stated: None gives the empty list, a scalar identifier of any type the
\* one-element list of it, a list itself.
C10_ColsNormalize ==
    fn = "_cols_normalize" =>
        /\ x.k = "none" => ret = ArgList(<<>>)
        /\ x.k = "scalar" => ret = ArgList(<<x.v>>)
        /\ x.k = "list" => ret = x

====
